---------------------------- MODULE Spec2Model ----------------------------
(***************************************************************************)
(* Model of app/utils/availabilityStringParser.ts: the index resolver      *)
(* (getOptionValueIndices), the memoized availability matcher              *)
(* (isOptionValuePresent) and the decoder of the encoded availability      *)
(* string (decodeOptionValues).                                            *)
(*                                                                         *)
(* A JavaScript string is modelled as the sequence of its characters, each *)
(* character a one-character TLA+ string; an array as a sequence (index i  *)
(* of the code is position i+1 of the sequence).                           *)
(***************************************************************************)
EXTENDS Integers, Sequences, FiniteSets, TLC

(***************************************************************************)
(* Bounds of the model.                                                    *)
(***************************************************************************)
\* number of tokens (numeric span + control character) of a decoder input
MaxTokens == 3
\* number of calls made on the exported functions in one behaviour
MaxCalls == 2
\* number of entries of the `variants` prop of a VariantSelector
MaxVariants == 2

(***************************************************************************)
(* Values of the code that are not numbers or strings.                     *)
(***************************************************************************)
\* Array.prototype.indexOf's answer for an absent element
NotFound == -1
\* the value of an optional chain that stops short, and of an array hole
undefined == -2
\* the initial value of `range`
null == -3

(***************************************************************************)
(* Strings.                                                                *)
(***************************************************************************)
\* the tokenizer's character class /[ :,-]/
Control == {" ", ":", ",", "-"}

DigitChars == <<"0", "1", "2", "3", "4", "5", "6", "7", "8", "9",
                "a", "b", "c", "d", "e", "f">>
UpperDigitChars == <<"0", "1", "2", "3", "4", "5", "6", "7", "8", "9",
                     "A", "B", "C", "D", "E", "F">>

\* the characters Number.parseInt skips at the start (space is a control
\* character and never part of a span)
WhiteSpace == {"\t", "\n", "\r"}

\* String.prototype.slice(from, to) with 0 <= from, 0 <= to (0-based, end
\* exclusive)
Slice(s, from, to) ==
    IF to <= from THEN <<>> ELSE SubSeq(s, from + 1, IF to > Len(s) THEN Len(s) ELSE to)

\* s[i] of the code: the character at 0-based index i, undefined outside
CharAt(s, i) == IF i >= 0 /\ i < Len(s) THEN s[i + 1] ELSE "undefined"

\* the value of character c as a digit of the given radix, or NotFound
DigitOf(c, radix) ==
    IF \E i \in 1..radix : DigitChars[i] = c \/ UpperDigitChars[i] = c
      THEN (CHOOSE i \in 1..radix : DigitChars[i] = c \/ UpperDigitChars[i] = c) - 1
      ELSE NotFound

RECURSIVE SkipWhiteSpace(_)
SkipWhiteSpace(s) ==
    IF s # <<>> /\ Head(s) \in WhiteSpace THEN SkipWhiteSpace(Tail(s)) ELSE s

\* the longest prefix of s made of digits of the radix, as a number;
\* acc is the value read so far, any whether a digit was read
RECURSIVE ReadDigits(_, _, _, _)
ReadDigits(s, radix, acc, any) ==
    IF s # <<>> /\ DigitOf(Head(s), radix) # NotFound
      THEN ReadDigits(Tail(s), radix, acc * radix + DigitOf(Head(s), radix), TRUE)
      ELSE [nan |-> ~any, value |-> acc]

\* Number.parseInt(string) with no radix: leading white space, an optional
\* sign, an optional 0x prefix, then the longest run of digits; NaN when
\* there is no digit
parseInt(str) ==
    LET s1 == SkipWhiteSpace(str)
        neg == s1 # <<>> /\ Head(s1) = "-"
        s2 == IF s1 # <<>> /\ Head(s1) \in {"+", "-"} THEN Tail(s1) ELSE s1
        hex == Len(s2) >= 2 /\ s2[1] = "0" /\ s2[2] \in {"x", "X"}
        r == IF hex THEN ReadDigits(SubSeq(s2, 3, Len(s2)), 16, 0, FALSE)
                    ELSE ReadDigits(s2, 10, 0, FALSE)
    IN  [nan |-> r.nan, value |-> IF neg THEN 0 - r.value ELSE r.value]

\* `x || 0` on a parseInt result: NaN and 0 are falsy
OrZero(r) == IF r.nan \/ r.value = 0 THEN 0 ELSE r.value

\* the concatenation of a sequence of strings
RECURSIVE Concat(_)
Concat(parts) == IF parts = <<>> THEN <<>> ELSE Head(parts) \o Concat(Tail(parts))

\* String(n) for an integer n >= 0
RECURSIVE NumberToString(_)
NumberToString(n) ==
    IF n < 10 THEN <<DigitChars[n + 1]>>
    ELSE NumberToString(n \div 10) \o <<DigitChars[(n % 10) + 1]>>

\* Array.prototype.join(','): undefined elements join as the empty string
RECURSIVE Join(_)
Join(arr) ==
    IF arr = <<>> THEN <<>>
    ELSE LET first == IF Head(arr) = undefined THEN <<>> ELSE NumberToString(Head(arr))
         IN  IF Len(arr) = 1 THEN first ELSE first \o <<",">> \o Join(Tail(arr))

(***************************************************************************)
(* Arrays.                                                                 *)
(***************************************************************************)
\* faulty variant of ArraySet: cur.push(v) in place of cur[i] = v
ArrayPush(arr, i, v) == Append(arr, v)

\* arr[i] = v: a negative i sets a property, not an element, and leaves the
\* elements and the length alone; an i beyond the end leaves holes
ArraySet(arr, i, v) ==
    IF i < 0 THEN arr
    ELSE IF i < Len(arr) THEN [arr EXCEPT ![i + 1] = v]
    ELSE arr \o [k \in 1..(i - Len(arr)) |-> undefined] \o <<v>>

\* arr.pop(): nothing to remove from an empty array
ArrayPop(arr) == IF arr = <<>> THEN arr ELSE SubSeq(arr, 1, Len(arr) - 1)

\* arr.indexOf(x)
IndexOf(arr, x) ==
    IF \E i \in 1..Len(arr) : arr[i] = x
      THEN (CHOOSE i \in 1..Len(arr) : arr[i] = x /\ \A j \in 1..(i - 1) : arr[j] # x) - 1
      ELSE NotFound

(***************************************************************************)
(* decodeOptionValues.                                                     *)
(***************************************************************************)
\* faulty variant of TokenIndex: the last control character is matched
TokenIndexLast(s, lastIndex) ==
    IF \E i \in lastIndex..(Len(s) - 1) : s[i + 1] \in Control
      THEN CHOOSE i \in lastIndex..(Len(s) - 1) :
             s[i + 1] \in Control /\ \A j \in (i + 1)..(Len(s) - 1) : s[j + 1] \notin Control
      ELSE NotFound

\* tokenizer.exec: the 0-based index of the first control character at or
\* after lastIndex, NotFound when there is none (exec returns null)
TokenIndex(s, lastIndex) ==
    IF \E i \in lastIndex..(Len(s) - 1) : s[i + 1] \in Control
      THEN CHOOSE i \in lastIndex..(Len(s) - 1) :
             s[i + 1] \in Control /\ \A j \in lastIndex..(i - 1) : s[j + 1] \notin Control
      ELSE NotFound

\* the locals of decodeOptionValues before the loop
DecodeStart == [index |-> 0, options |-> <<>>, cur |-> <<>>, depth |-> 0, range |-> null]

\* faulty variant of ExpandRange: the loop runs while range <= the number
ExpandRangeInclusive(d, optionValuePosition) ==
    IF d.range = null THEN d
    ELSE IF d.range <= optionValuePosition
      THEN [d EXCEPT !.options = d.options \o
                        [k \in 1..(optionValuePosition - d.range + 1) |->
                            ArraySet(d.cur, d.depth, d.range + k - 1)],
                     !.cur = ArraySet(d.cur, d.depth, optionValuePosition),
                     !.range = null]
      ELSE [d EXCEPT !.range = null]

\* the for loop over a pending range: one snapshot of cur per value from
\* range up to, not including, optionValuePosition; then range = null
ExpandRange(d, optionValuePosition) ==
    IF d.range = null THEN d
    ELSE IF d.range < optionValuePosition
      THEN [d EXCEPT !.options = d.options \o
                        [k \in 1..(optionValuePosition - d.range) |->
                            ArraySet(d.cur, d.depth, d.range + k - 1)],
                     !.cur = ArraySet(d.cur, d.depth, optionValuePosition - 1),
                     !.range = null]
      ELSE [d EXCEPT !.range = null]

\* faulty variant of Emits: a comma pushes whatever precedes it
EmitsEveryComma(operation, prev) == operation = " " \/ operation = ","

\* whether the token pushes a snapshot of cur
Emits(operation, prev) == operation = " " \/ (operation = "," /\ prev # ",")

\* faulty variant of ApplyOperation: the comma pops cur but leaves depth
ApplyOperationKeepDepth(d, operation, prev, optionValuePosition) ==
    IF operation = "-" THEN [d EXCEPT !.range = optionValuePosition]
    ELSE IF operation = ":" THEN [d EXCEPT !.depth = d.depth + 1]
    ELSE LET pushed == IF Emits(operation, prev)
                         THEN [d EXCEPT !.options = Append(d.options, d.cur)]
                         ELSE d
         IN  IF operation = ","
               THEN [pushed EXCEPT !.cur = ArrayPop(pushed.cur)]
               ELSE pushed

\* faulty variant of ApplyOperation: the colon leaves depth
ApplyOperationFlatColon(d, operation, prev, optionValuePosition) ==
    IF operation = "-" THEN [d EXCEPT !.range = optionValuePosition]
    ELSE IF operation = ":" THEN d
    ELSE LET pushed == IF Emits(operation, prev)
                         THEN [d EXCEPT !.options = Append(d.options, d.cur)]
                         ELSE d
         IN  IF operation = ","
               THEN [pushed EXCEPT !.cur = ArrayPop(pushed.cur), !.depth = pushed.depth - 1]
               ELSE pushed

\* the branch on the operation, after cur[depth] is written
ApplyOperation(d, operation, prev, optionValuePosition) ==
    IF operation = "-" THEN [d EXCEPT !.range = optionValuePosition]
    ELSE IF operation = ":" THEN [d EXCEPT !.depth = d.depth + 1]
    ELSE LET pushed == IF Emits(operation, prev)
                         THEN [d EXCEPT !.options = Append(d.options, d.cur)]
                         ELSE d
         IN  IF operation = ","
               THEN [pushed EXCEPT !.cur = ArrayPop(pushed.cur), !.depth = pushed.depth - 1]
               ELSE pushed

\* one iteration of the while loop, for the token at 0-based index tokenIndex
DecodeToken(s, d, tokenIndex) ==
    LET operation == s[tokenIndex + 1]
        optionValuePosition == OrZero(parseInt(Slice(s, d.index, tokenIndex)))
        expanded == ExpandRange(d, optionValuePosition)
        written == [expanded EXCEPT !.cur = ArraySet(expanded.cur, expanded.depth,
                                                     optionValuePosition)]
        applied == ApplyOperation(written, operation, CharAt(s, tokenIndex - 1),
                                  optionValuePosition)
    IN  [applied EXCEPT !.index = tokenIndex + 1]

RECURSIVE DecodeLoop(_, _)
DecodeLoop(s, d) ==
    IF TokenIndex(s, d.index) = NotFound THEN d
    ELSE DecodeLoop(s, DecodeToken(s, d, TokenIndex(s, d.index)))

\* decodeOptionValues(encodedOptionValues): the list of emitted vectors
decodeOptionValues(encodedOptionValues) == DecodeLoop(encodedOptionValues, DecodeStart).options

(***************************************************************************)
(* Inputs of the decoder.                                                  *)
(***************************************************************************)
\* the numeric spans the inputs are built from: the empty span, digits, and
\* a span that holds a character that is no digit
Spans == {<<>>, <<"0">>, <<"1">>, <<"2">>, <<"3">>, <<"1", "a">>}

Tokens == {span \o <<c>> : span \in Spans, c \in Control}

\* trailing fragments with no control character after them
Trailers == {<<"1">>, <<"2", "3">>}

\* what may follow n tokens: nothing, or a trailing fragment when the
\* string is shorter than MaxTokens tokens
TrailersAfter(n) == IF n < MaxTokens THEN {<<>>} \cup Trailers ELSE {<<>>}

(***************************************************************************)
(* getOptionValueIndices and isOptionValuePresent.                         *)
(***************************************************************************)
\* faulty variant of OptionValueIndex: index 0 stands in for an absent value
OptionValueIndexOrZero(optionValue, index, productOptions) ==
    IF index < Len(productOptions) /\ "values" \in DOMAIN productOptions[index + 1]
      THEN IF IndexOf(productOptions[index + 1].values, optionValue) = NotFound
             THEN 0
             ELSE IndexOf(productOptions[index + 1].values, optionValue)
      ELSE undefined

\* faulty variant of OptionValueIndex: every value is looked up in the
\* first option
OptionValueIndexFirstOption(optionValue, index, productOptions) ==
    IF 0 < Len(productOptions) /\ "values" \in DOMAIN productOptions[1]
      THEN IndexOf(productOptions[1].values, optionValue)
      ELSE undefined

\* productOptions[index]?.values?.indexOf(optionValue): undefined when the
\* catalog has no entry at index or the entry has no values list
OptionValueIndex(optionValue, index, productOptions) ==
    IF index < Len(productOptions) /\ "values" \in DOMAIN productOptions[index + 1]
      THEN IndexOf(productOptions[index + 1].values, optionValue)
      ELSE undefined

\* the message of the Error thrown for an unmatched option value
NotFoundMessage(optionValue) ==
    <<"Option value \"", optionValue, "\" not found in product options">>

\* getOptionValueIndices(targetOptionValues, productOptions): map() visits
\* the target values in order and the first -1 throws
getOptionValueIndices(targetOptionValues, productOptions) ==
    LET found == [i \in 1..Len(targetOptionValues) |->
                    OptionValueIndex(targetOptionValues[i], i - 1, productOptions)]
        bad == {i \in 1..Len(targetOptionValues) : found[i] = NotFound}
    IN  IF bad # {}
          THEN [threw |-> TRUE,
                error |-> NotFoundMessage(
                    targetOptionValues[CHOOSE i \in bad : \A j \in bad : i <= j]),
                indices |-> <<>>]
          ELSE [threw |-> FALSE, error |-> <<>>, indices |-> found]

\* faulty variant of MapSet: the memo is cleared before the entry is stored
MapSetCleared(map, key, value) == [k \in {key} |-> value]

\* faulty variant of MapSet: storing under a key that is present leaves an
\* empty set there
MapSetOverwriteEmpty(map, key, value) ==
    [k \in DOMAIN map \cup {key} |->
        IF k = key THEN (IF key \in DOMAIN map THEN {} ELSE value) ELSE map[k]]

\* Map.prototype.has / set on the memo decodedOptionValues
MapHas(map, key) == key \in DOMAIN map
MapSet(map, key, value) ==
    [k \in DOMAIN map \cup {key} |-> IF k = key THEN value ELSE map[k]]

\* new Set(decodeOptionValues(encoded).map((optionValue) => optionValue.join(',')))
DecodedSet(encodedOptionValues) ==
    LET options == decodeOptionValues(encodedOptionValues)
    IN  {Join(options[i]) : i \in 1..Len(options)}

\* faulty variant of CacheMiss: the memo is never consulted
CacheMissAlways(map, encodedOptionValues) == TRUE

\* the condition of `if (!decodedOptionValues.has(encodedOptionValues))`
CacheMiss(map, encodedOptionValues) == ~MapHas(map, encodedOptionValues)

\* the arguments of the decodeOptionValues invocations of one call: on a
\* miss the string is decoded for console.error and again for the Set
DecodeInvocations(map, encodedOptionValues) ==
    IF CacheMiss(map, encodedOptionValues)
      THEN <<encodedOptionValues, encodedOptionValues>>
      ELSE <<>>

\* faulty variant of Memoize: only an empty memo is filled
MemoizeFirstOnly(map, encodedOptionValues) ==
    IF DOMAIN map = {}
      THEN MapSet(map, encodedOptionValues, DecodedSet(encodedOptionValues))
      ELSE map

\* the memo after the `if` block
Memoize(map, encodedOptionValues) ==
    IF CacheMiss(map, encodedOptionValues)
      THEN MapSet(map, encodedOptionValues, DecodedSet(encodedOptionValues))
      ELSE map

\* faulty variant of Lookup: the indices are joined with no separator
LookupUnseparated(map, encodedOptionValues, optionValueIndices) ==
    /\ MapHas(map, encodedOptionValues)
    /\ Concat([i \in 1..Len(optionValueIndices) |->
                  IF optionValueIndices[i] = undefined THEN <<>>
                  ELSE NumberToString(optionValueIndices[i])])
          \in map[encodedOptionValues]

\* faulty variant of Lookup: the joined indices are looked for in every
\* set the memo holds
LookupAnyKey(map, encodedOptionValues, optionValueIndices) ==
    \E key \in DOMAIN map : Join(optionValueIndices) \in map[key]

\* Boolean(decodedOptionValues.get(encoded)?.has(optionValueIndices.join(',')))
Lookup(map, encodedOptionValues, optionValueIndices) ==
    /\ MapHas(map, encodedOptionValues)
    /\ Join(optionValueIndices) \in map[encodedOptionValues]

\* faulty variant of isOptionValuePresent: the targets are resolved before
\* the memo is filled, so a failed resolution leaves the memo as it was
isOptionValuePresentResolveFirst(map, targetOptionValues, encodedOptionValues, productOptions) ==
    LET resolved == getOptionValueIndices(targetOptionValues, productOptions)
        memo == IF resolved.threw THEN map ELSE Memoize(map, encodedOptionValues)
    IN  [map |-> memo,
         invocations |-> IF resolved.threw THEN <<>>
                         ELSE DecodeInvocations(map, encodedOptionValues),
         threw |-> resolved.threw,
         error |-> resolved.error,
         present |-> IF resolved.threw THEN FALSE
                     ELSE Lookup(memo, encodedOptionValues, resolved.indices)]

\* faulty variant of isOptionValuePresent: a failed resolution answers false
isOptionValuePresentSwallow(map, targetOptionValues, encodedOptionValues, productOptions) ==
    LET memo == Memoize(map, encodedOptionValues)
        resolved == getOptionValueIndices(targetOptionValues, productOptions)
    IN  [map |-> memo,
         invocations |-> DecodeInvocations(map, encodedOptionValues),
         threw |-> FALSE,
         error |-> <<>>,
         present |-> IF resolved.threw THEN FALSE
                     ELSE Lookup(memo, encodedOptionValues, resolved.indices)]

\* isOptionValuePresent: the memo it leaves and what it returns or throws
isOptionValuePresent(map, targetOptionValues, encodedOptionValues, productOptions) ==
    LET memo == Memoize(map, encodedOptionValues)
        resolved == getOptionValueIndices(targetOptionValues, productOptions)
    IN  [map |-> memo,
         invocations |-> DecodeInvocations(map, encodedOptionValues),
         threw |-> resolved.threw,
         error |-> resolved.error,
         present |-> IF resolved.threw THEN FALSE
                     ELSE Lookup(memo, encodedOptionValues, resolved.indices)]

(***************************************************************************)
(* Inputs of the calls.                                                    *)
(***************************************************************************)
Color == [name |-> "Color", values |-> <<"Red", "Blue">>]
Finish == [name |-> "Finish", values |-> <<"Blue", "Red">>]
\* an option that carries no values list
Legacy == [name |-> "Legacy"]

Catalogs == {<<>>, <<Color>>, <<Color, Finish>>, <<Color, Legacy>>}

TargetValues == {"Red", "Blue", "Purple"}

LongestCatalog == CHOOSE n \in {Len(c) : c \in Catalogs} : \A c \in Catalogs : Len(c) <= n

Targets == UNION {[1..n -> TargetValues] : n \in 0..LongestCatalog}

\* "", "0:0 ", "0-1 ", "0:0 1,1:1 ", "0:0,1 " and "0,0 "
Encodings ==
    { <<>>,
      <<"0", ":", "0", " ">>,
      <<"0", "-", "1", " ">>,
      <<"0", ":", "0", " ", "1", ",", "1", ":", "1", " ">>,
      <<"0", ":", "0", ",", "1", " ">>,
      <<"0", ",", "0", " ">> }

VARIABLES
    decodedOptionValues,  \* the memo: encoded string -> set of joined vectors
    decodeInvocations,    \* how often decodeOptionValues ran, per argument
    requested,            \* the encoded strings passed to earlier calls
    lastCall,             \* the latest call: its arguments and its outcome
    calls,                \* the number of calls made
    input,                \* SpecDecode: the string being decoded
    dec,                  \* SpecDecode: the locals of decodeOptionValues
    pc,                   \* SpecDecode: "loop" while tokens remain, then "done"
    callers,              \* SpecConcurrent: each caller's position and locals
    selector              \* SpecSelector: the props and what was rendered

matcherVars == <<decodedOptionValues, decodeInvocations, requested, lastCall, calls>>
decoderVars == <<input, dec, pc>>
otherVars == <<callers, selector>>
vars == <<decodedOptionValues, decodeInvocations, requested, lastCall, calls,
          input, dec, pc, callers, selector>>

NoCall ==
    [fn |-> "none", targetOptionValues |-> <<>>, encodedOptionValues |-> <<>>,
     productOptions |-> <<>>, threw |-> FALSE, error |-> <<>>, present |-> FALSE,
     indices |-> <<>>, invocations |-> <<>>, repeated |-> FALSE]

\* the module is loaded: the memo is a new, empty Map
MatcherInit ==
    /\ decodedOptionValues = <<>>
    /\ decodeInvocations = [e \in Encodings |-> 0]
    /\ requested = {}
    /\ lastCall = NoCall
    /\ calls = 0

DecoderIdle ==
    /\ input = <<>>
    /\ dec = DecodeStart
    /\ pc = "idle"

\* a caller of isOptionValuePresent, before the call
NoCaller ==
    [pc |-> "idle", targetOptionValues |-> <<>>, encodedOptionValues |-> <<>>,
     productOptions |-> <<>>, miss |-> FALSE, decoded |-> {}, indices |-> <<>>,
     threw |-> FALSE, error |-> <<>>, present |-> FALSE]

\* the callers of SpecConcurrent
Callers == {"first", "second"}

\* no VariantSelector has rendered
NoRender ==
    [file |-> "none", props |-> [options |-> <<>>, selectedOptions |-> <<>>],
     children |-> <<>>]

OthersIdle ==
    /\ callers = [i \in Callers |-> NoCaller]
    /\ selector = NoRender

Init == MatcherInit /\ DecoderIdle /\ OthersIdle

\* a caller invokes isOptionValuePresent (r is the one evaluation of the call)
CallIsOptionValuePresent ==
    /\ calls < MaxCalls
    /\ \E t \in Targets, e \in Encodings, c \in Catalogs :
         \E r \in {isOptionValuePresent(decodedOptionValues, t, e, c)} :
             /\ decodedOptionValues' = r.map
             /\ decodeInvocations' =
                    [x \in Encodings |->
                        decodeInvocations[x]
                          + Cardinality({i \in 1..Len(r.invocations) : r.invocations[i] = x})]
             /\ requested' = requested \cup {e}
             /\ lastCall' =
                    [fn |-> "isOptionValuePresent", targetOptionValues |-> t,
                     encodedOptionValues |-> e, productOptions |-> c,
                     threw |-> r.threw, error |-> r.error, present |-> r.present,
                     indices |-> <<>>, invocations |-> r.invocations,
                     repeated |-> e \in requested]
    /\ calls' = calls + 1
    /\ UNCHANGED decoderVars
    /\ UNCHANGED otherVars

\* a caller invokes getOptionValueIndices directly
CallGetOptionValueIndices ==
    /\ calls < MaxCalls
    /\ \E t \in Targets, c \in Catalogs :
         \E r \in {getOptionValueIndices(t, c)} :
             lastCall' =
                [fn |-> "getOptionValueIndices", targetOptionValues |-> t,
                 encodedOptionValues |-> <<>>, productOptions |-> c,
                 threw |-> r.threw, error |-> r.error, present |-> FALSE,
                 indices |-> r.indices, invocations |-> <<>>, repeated |-> FALSE]
    /\ calls' = calls + 1
    /\ UNCHANGED <<decodedOptionValues, decodeInvocations, requested>>
    /\ UNCHANGED decoderVars
    /\ UNCHANGED otherVars

Next == CallIsOptionValuePresent \/ CallGetOptionValueIndices

Spec == Init /\ [][Next]_vars

(***************************************************************************)
(* The decoder, one pass of its loop at a time.                            *)
(***************************************************************************)
DecodeInit ==
    /\ MatcherInit
    /\ \E n \in 0..MaxTokens :
         \E tokens \in [1..n -> Tokens], trailer \in TrailersAfter(n) :
            input = Concat(tokens) \o trailer
    /\ dec = DecodeStart
    /\ pc = "loop"
    /\ OthersIdle

\* one pass of the while loop
DecodeStep ==
    /\ pc = "loop"
    /\ TokenIndex(input, dec.index) # NotFound
    /\ dec' = DecodeToken(input, dec, TokenIndex(input, dec.index))
    /\ UNCHANGED <<input, pc>>
    /\ UNCHANGED matcherVars
    /\ UNCHANGED otherVars

\* faulty variant of DecodeReturn: what follows the last control character
\* is written to cur and pushed before the return
DecodeReturnFlush ==
    /\ pc = "loop"
    /\ TokenIndex(input, dec.index) = NotFound
    /\ pc' = "done"
    /\ dec' = IF dec.index < Len(input)
                THEN [dec EXCEPT !.options =
                        Append(dec.options,
                               ArraySet(dec.cur, dec.depth,
                                        OrZero(parseInt(Slice(input, dec.index, Len(input))))))]
                ELSE dec
    /\ UNCHANGED input
    /\ UNCHANGED matcherVars
    /\ UNCHANGED otherVars

\* tokenizer.exec returns null: return options
DecodeReturn ==
    /\ pc = "loop"
    /\ TokenIndex(input, dec.index) = NotFound
    /\ pc' = "done"
    /\ UNCHANGED <<input, dec>>
    /\ UNCHANGED matcherVars
    /\ UNCHANGED otherVars

DecodeNext == DecodeStep \/ DecodeReturn

SpecDecode == DecodeInit /\ [][DecodeNext]_vars

(***************************************************************************)
(* isOptionValuePresent statement by statement, run by two callers on one  *)
(* not yet memoized string.  The function is synchronous, so the           *)
(* JavaScript run-time runs one call to its end before the next; the       *)
(* interleavings below include those runs and every other order of the     *)
(* statements.                                                             *)
(***************************************************************************)
\* both callers are about to call with the same string; the memo is empty
ConcurrentInit ==
    /\ MatcherInit
    /\ DecoderIdle
    /\ selector = NoRender
    /\ \E e \in Encodings, c \in Catalogs :
         \E t \in [Callers -> Targets] :
            callers = [i \in Callers |->
                          [NoCaller EXCEPT !.pc = "has",
                                           !.targetOptionValues = t[i],
                                           !.encodedOptionValues = e,
                                           !.productOptions = c]]

\* if (!decodedOptionValues.has(encodedOptionValues))
Has(i) ==
    /\ callers[i].pc = "has"
    /\ callers' = [callers EXCEPT
                     ![i].miss = CacheMiss(decodedOptionValues, callers[i].encodedOptionValues),
                     ![i].pc = IF CacheMiss(decodedOptionValues, callers[i].encodedOptionValues)
                                 THEN "log" ELSE "resolve"]
    /\ UNCHANGED <<matcherVars, decoderVars, selector>>

\* console.error(decodeOptionValues(encodedOptionValues))
Log(i) ==
    /\ callers[i].pc = "log"
    /\ decodeInvocations' =
          [decodeInvocations EXCEPT ![callers[i].encodedOptionValues] = @ + 1]
    /\ callers' = [callers EXCEPT ![i].pc = "decode"]
    /\ UNCHANGED <<decodedOptionValues, requested, lastCall, calls, decoderVars, selector>>

\* the argument of set(): new Set(decodeOptionValues(...).map(join))
Decode(i) ==
    /\ callers[i].pc = "decode"
    /\ decodeInvocations' =
          [decodeInvocations EXCEPT ![callers[i].encodedOptionValues] = @ + 1]
    /\ callers' = [callers EXCEPT
                     ![i].decoded = DecodedSet(callers[i].encodedOptionValues),
                     ![i].pc = "set"]
    /\ UNCHANGED <<decodedOptionValues, requested, lastCall, calls, decoderVars, selector>>

\* decodedOptionValues.set(encodedOptionValues, the new Set)
Set(i) ==
    /\ callers[i].pc = "set"
    /\ decodedOptionValues' =
          MapSet(decodedOptionValues, callers[i].encodedOptionValues, callers[i].decoded)
    /\ callers' = [callers EXCEPT ![i].pc = "resolve"]
    /\ UNCHANGED <<decodeInvocations, requested, lastCall, calls, decoderVars, selector>>

\* const optionValueIndices = getOptionValueIndices(...): the Error leaves
\* the function
Resolve(i) ==
    /\ callers[i].pc = "resolve"
    /\ \E r \in {getOptionValueIndices(callers[i].targetOptionValues,
                                        callers[i].productOptions)} :
         callers' = [callers EXCEPT ![i].threw = r.threw,
                                    ![i].error = r.error,
                                    ![i].indices = r.indices,
                                    ![i].pc = IF r.threw THEN "threw" ELSE "get"]
    /\ UNCHANGED <<matcherVars, decoderVars, selector>>

\* return Boolean(decodedOptionValues.get(...)?.has(optionValueIndices.join(',')))
Get(i) ==
    /\ callers[i].pc = "get"
    /\ callers' = [callers EXCEPT
                     ![i].present = Lookup(decodedOptionValues,
                                           callers[i].encodedOptionValues,
                                           callers[i].indices),
                     ![i].pc = "returned"]
    /\ UNCHANGED <<matcherVars, decoderVars, selector>>

ConcurrentNext ==
    \E i \in Callers :
        Has(i) \/ Log(i) \/ Decode(i) \/ Set(i) \/ Resolve(i) \/ Get(i)

SpecConcurrent == ConcurrentInit /\ [][ConcurrentNext]_vars

(***************************************************************************)
(* The variants-based VariantSelector: app/components/VariantSelector.tsx  *)
(* and its copy unnamed/part_001, which differ in the isAvailable          *)
(* expression.  Of a rendered option value the model keeps value,          *)
(* isAvailable and isActive; `to` and `search` are built from the URL and  *)
(* the handle and feed neither.                                            *)
(***************************************************************************)
\* currentOptionValue: the selected options as name -> value, with the
\* rendered option's value replaced by optionValue (a later entry of the
\* same name overwrites an earlier one)
CurrentOptionValue(selectedOptions, optionName, optionValue) ==
    [name \in {selectedOptions[i].name : i \in 1..Len(selectedOptions)} |->
        IF name = optionName THEN optionValue
        ELSE selectedOptions[CHOOSE i \in 1..Len(selectedOptions) :
                                /\ selectedOptions[i].name = name
                                /\ \A j \in (i + 1)..Len(selectedOptions) :
                                      selectedOptions[j].name # name].value]

\* variant.selectedOptions?.every(...): a name currentOptionValue does not
\* hold reads as undefined and equals no value
EveryOptionMatches(variant, current) ==
    \A k \in 1..Len(variant.selectedOptions) :
        /\ variant.selectedOptions[k].name \in DOMAIN current
        /\ current[variant.selectedOptions[k].name] = variant.selectedOptions[k].value

\* variants?.find(...): the first matching variant; found is FALSE for the
\* undefined that an absent `variants` or an unsuccessful find gives
FindVariant(props, current) ==
    LET matching == IF "variants" \in DOMAIN props
                      THEN {k \in 1..Len(props.variants) :
                              EveryOptionMatches(props.variants[k], current)}
                      ELSE {}
    IN  IF matching = {}
          THEN [found |-> FALSE, availableForSale |-> FALSE]
          ELSE [found |-> TRUE,
                availableForSale |->
                    props.variants[CHOOSE k \in matching :
                                      \A j \in matching : k <= j].availableForSale]

\* app/components/VariantSelector.tsx: Boolean(variant?.availableForSale)
IsAvailableBoolean(variant) == variant.found /\ variant.availableForSale

\* unnamed/part_001: variant?.availableForSale ?? true
IsAvailableOrTrue(variant) == IF variant.found THEN variant.availableForSale ELSE TRUE

\* options.filter((option) => option.values.length > 1)
ShownOptions(options) == SelectSeq(options, LAMBDA option : Len(option.values) > 1)

\* the isAvailable expression of the named file
IsAvailable(file, variant) ==
    IF file = "unnamed/part_001" THEN IsAvailableOrTrue(variant)
    ELSE IsAvailableBoolean(variant)

\* what the component of the named file passes to children, one call per
\* shown option
RenderOptions(file, props) ==
    [optionIndex \in 1..Len(ShownOptions(props.options)) |->
        LET option == ShownOptions(props.options)[optionIndex]
            selectedOptionValue == props.selectedOptions[optionIndex].value
        IN  [name |-> option.name,
             value |-> selectedOptionValue,
             values |->
                [v \in 1..Len(option.values) |->
                    [value |-> option.values[v],
                     isAvailable |->
                        IsAvailable(file, FindVariant(props,
                            CurrentOptionValue(props.selectedOptions, option.name,
                                               option.values[v]))),
                     isActive |-> option.values[v] = selectedOptionValue]]]]

(***************************************************************************)
(* Inputs of the VariantSelector.                                          *)
(***************************************************************************)
\* an option with one value: the component does not show it
Material == [name |-> "Material", values |-> <<"Oak">>]

SelectorOptions == {<<Color>>, <<Color, Finish>>, <<Color, Material>>}

\* one selected value per option
SelectedOptionsOf(options) ==
    {selected \in [1..Len(options) -> [name : {"Color", "Finish", "Material"},
                                       value : TargetValues \cup {"Oak"}]] :
        \A i \in 1..Len(options) :
            /\ selected[i].name = options[i].name
            /\ \E k \in 1..Len(options[i].values) : options[i].values[k] = selected[i].value}

\* the variants a `variants` prop is made of: a Color and Finish
\* combination each, for sale or not
VariantPool ==
    {[availableForSale |-> a,
      selectedOptions |-> <<[name |-> "Color", value |-> c],
                            [name |-> "Finish", value |-> f]>>] :
        a \in BOOLEAN, c \in {"Red", "Blue"}, f \in {"Red", "Blue"}}

\* the props: `variants` is optional
SelectorProps ==
    UNION {
        {[options |-> o, selectedOptions |-> s] : s \in SelectedOptionsOf(o)}
        \cup
        UNION {{[options |-> o, selectedOptions |-> s, variants |-> v] :
                   s \in SelectedOptionsOf(o), v \in [1..n -> VariantPool]} :
               n \in 0..MaxVariants}
        : o \in SelectorOptions}

SelectorInit ==
    /\ MatcherInit
    /\ DecoderIdle
    /\ callers = [i \in Callers |-> NoCaller]
    /\ \E props \in SelectorProps :
         selector = [NoRender EXCEPT !.props = props]

\* app/components/VariantSelector.tsx renders
RenderVariantSelector ==
    /\ selector.file = "none"
    /\ selector' = [selector EXCEPT
                      !.file = "app/components/VariantSelector.tsx",
                      !.children = RenderOptions("app/components/VariantSelector.tsx",
                                                 selector.props)]
    /\ UNCHANGED <<matcherVars, decoderVars, callers>>

\* unnamed/part_001 renders
RenderPart001 ==
    /\ selector.file = "none"
    /\ selector' = [selector EXCEPT
                      !.file = "unnamed/part_001",
                      !.children = RenderOptions("unnamed/part_001", selector.props)]
    /\ UNCHANGED <<matcherVars, decoderVars, callers>>

SelectorNext == RenderVariantSelector \/ RenderPart001

SpecSelector == SelectorInit /\ [][SelectorNext]_vars

(***************************************************************************)
(* Definitions the properties are stated with.  They restate what the      *)
(* specification says, independently of the operators above.               *)
(***************************************************************************)
\* the numerals the decoder inputs are written with
Numerals == <<"0", "1", "2", "3">>
Numbers == 0..(Len(Numerals) - 1)
Numeral(n) == Numerals[n + 1]

\* every option of the catalog carries a values list
HasValues(catalog) == \A i \in 1..Len(catalog) : "values" \in DOMAIN catalog[i]

\* targets[i] occurs in catalog[i].values
Matched(targets, catalog, i) ==
    \E k \in 1..Len(catalog[i].values) : catalog[i].values[k] = targets[i]

\* one target value per option, each present in its option
AllPresent(targets, catalog) ==
    /\ Len(targets) = Len(catalog)
    /\ HasValues(catalog)
    /\ \A i \in 1..Len(targets) : Matched(targets, catalog, i)

\* n is the zero-based position of value in values
IsPositionOf(n, value, values) ==
    /\ n \in 0..(Len(values) - 1)
    /\ values[n + 1] = value
    /\ \A k \in 1..n : values[k] # value

\* the index vector of a combination whose values are all present
Positions(targets, catalog) ==
    [i \in 1..Len(targets) |->
        CHOOSE n \in 0..(Len(catalog[i].values) - 1) :
            IsPositionOf(n, targets[i], catalog[i].values)]

\* the canonicalized set decoded afresh from an encoded string
Canonical(encoded) ==
    LET options == decodeOptionValues(encoded)
    IN  {Join(options[i]) : i \in 1..Len(options)}

\* the latest call was to the named function
Called(fn) == lastCall.fn = fn

(***************************************************************************)
(* Properties of isOptionValuePresent and getOptionValueIndices (Spec).    *)
(***************************************************************************)
\* C1: when there is one target value per option and every target value is
\* present in its option, isOptionValuePresent returns true if and only if
\* the comma-joined index vector of the combination is a member of the
\* canonicalized set decoded from the encoded string.
C1_MembershipDecides ==
    (Called("isOptionValuePresent")
        /\ AllPresent(lastCall.targetOptionValues, lastCall.productOptions))
    => /\ ~lastCall.threw
       /\ lastCall.present <=>
            Join(Positions(lastCall.targetOptionValues, lastCall.productOptions))
                \in Canonical(lastCall.encodedOptionValues)

\* C1: against "0:0 " (decoded set {[0,0]}) and a 2x2 catalog, the
\* combination at [1,1] is reported unavailable.
C1_Witness ==
    /\ Called("isOptionValuePresent")
    /\ lastCall.encodedOptionValues = <<"0", ":", "0", " ">>
    /\ lastCall.productOptions = <<Color, Finish>>
    /\ lastCall.targetOptionValues = <<"Blue", "Red">>
    /\ ~lastCall.threw
    /\ ~lastCall.present

\* C5: with one target value per option (each option carrying its values
\* list), getOptionValueIndices throws an Error whose message names an
\* unmatched target value whenever some target value is absent from its
\* option; it returns no vector then.
C5_UnknownValueThrows ==
    (Called("getOptionValueIndices")
        /\ Len(lastCall.targetOptionValues) = Len(lastCall.productOptions)
        /\ HasValues(lastCall.productOptions)
        /\ \E i \in 1..Len(lastCall.targetOptionValues) :
              ~Matched(lastCall.targetOptionValues, lastCall.productOptions, i))
    => /\ lastCall.threw
       /\ lastCall.indices = <<>>
       /\ \E i \in 1..Len(lastCall.targetOptionValues) :
            /\ ~Matched(lastCall.targetOptionValues, lastCall.productOptions, i)
            /\ lastCall.error = <<"Option value \"", lastCall.targetOptionValues[i],
                                  "\" not found in product options">>

\* C5: ["Purple"] against the values ["Red", "Blue"] throws.
C5_Witness ==
    /\ Called("getOptionValueIndices")
    /\ lastCall.targetOptionValues = <<"Purple">>
    /\ lastCall.productOptions = <<Color>>
    /\ lastCall.threw
    /\ lastCall.error = <<"Option value \"", "Purple", "\" not found in product options">>

\* C6: a getOptionValueIndices call with one target value per option, all
\* present, returns a vector as long as the targets whose entry i is the
\* zero-based position of target i in option i's values, and leaves the
\* memo and the decoder's invocation counts as they were.
C6_ResolvesPositions ==
    [][(lastCall'.fn = "getOptionValueIndices"
          /\ calls' = calls + 1
          /\ AllPresent(lastCall'.targetOptionValues, lastCall'.productOptions))
       => /\ ~lastCall'.threw
          /\ Len(lastCall'.indices) = Len(lastCall'.targetOptionValues)
          /\ \A i \in 1..Len(lastCall'.targetOptionValues) :
                IsPositionOf(lastCall'.indices[i], lastCall'.targetOptionValues[i],
                             lastCall'.productOptions[i].values)
          /\ decodedOptionValues' = decodedOptionValues
          /\ decodeInvocations' = decodeInvocations]_vars

\* C6: ["Blue", "Blue"] against Color = [Red, Blue], Finish = [Blue, Red]
\* resolves to [1, 0].
C6_Witness ==
    /\ Called("getOptionValueIndices")
    /\ lastCall.targetOptionValues = <<"Blue", "Blue">>
    /\ lastCall.productOptions = <<Color, Finish>>
    /\ lastCall.indices = <<1, 0>>

\* C7: when the index vector the targets resolve to is one of the vectors
\* decodeOptionValues emits for the encoded string, isOptionValuePresent
\* returns true, whatever calls came before.
C7_RoundTrip ==
    (Called("isOptionValuePresent") /\ ~lastCall.threw)
    => \A k \in 1..Len(decodeOptionValues(lastCall.encodedOptionValues)) :
          (decodeOptionValues(lastCall.encodedOptionValues)[k]
              = getOptionValueIndices(lastCall.targetOptionValues,
                                      lastCall.productOptions).indices)
          => lastCall.present

\* C7: on a later call with an already requested string, the combination at
\* the emitted vector [1,1] of "0:0 1,1:1 " is reported available.
C7_Witness ==
    /\ Called("isOptionValuePresent")
    /\ calls = MaxCalls
    /\ lastCall.repeated
    /\ lastCall.encodedOptionValues
          = <<"0", ":", "0", " ", "1", ",", "1", ":", "1", " ">>
    /\ lastCall.productOptions = <<Color, Finish>>
    /\ lastCall.targetOptionValues = <<"Blue", "Red">>
    /\ lastCall.present

\* C8: a call whose encoded string was passed to an earlier call invokes
\* decodeOptionValues not at all, leaves the memo untouched and answers
\* from the set stored before the call.
C8_CacheHit ==
    [][(lastCall'.fn = "isOptionValuePresent"
          /\ calls' = calls + 1
          /\ lastCall'.encodedOptionValues \in requested)
       => /\ lastCall'.invocations = <<>>
          /\ decodeInvocations' = decodeInvocations
          /\ decodedOptionValues' = decodedOptionValues
          /\ lastCall'.encodedOptionValues \in DOMAIN decodedOptionValues
          /\ ~lastCall'.threw =>
                (lastCall'.present <=>
                    Join(getOptionValueIndices(lastCall'.targetOptionValues,
                                               lastCall'.productOptions).indices)
                        \in decodedOptionValues[lastCall'.encodedOptionValues])]_vars

\* C8: a second call with "0-1 " that decodes nothing and answers true.
C8_Witness ==
    /\ Called("isOptionValuePresent")
    /\ lastCall.repeated
    /\ lastCall.encodedOptionValues = <<"0", "-", "1", " ">>
    /\ lastCall.invocations = <<>>
    /\ lastCall.present

\* C9: over any sequence of isOptionValuePresent calls, decodeOptionValues
\* is invoked at most once for a given encoded string.
C9_DecodedOnce == \A e \in Encodings : decodeInvocations[e] <= 1

(***************************************************************************)
(* Properties of decodeOptionValues (SpecDecode).                          *)
(***************************************************************************)
\* the loop has consumed the whole input
Decoded(s) == pc = "done" /\ input = s

\* C2, as claimed: "a-b " with a < b decodes to exactly [a], ..., [b-1].
C2_EndExclusive ==
    pc = "done" =>
        \A a, b \in Numbers :
            (a < b /\ Decoded(<<Numeral(a), "-", Numeral(b), " ">>))
            => dec.options = [k \in 1..(b - a) |-> <<a + k - 1>>]

\* C2, amended: "a-b " with a < b decodes to exactly [a], ..., [b]: the
\* range expansion emits [a], ..., [b-1] and the closing space emits [b].
C2_EndInclusive ==
    pc = "done" =>
        \A a, b \in Numbers :
            (a < b /\ Decoded(<<Numeral(a), "-", Numeral(b), " ">>))
            => dec.options = [k \in 1..(b - a + 1) |-> <<a + k - 1>>]

\* C2: "0-3 " decodes to [0], [1], [2], [3].
C2_Witness ==
    /\ Decoded(<<"0", "-", "3", " ">>)
    /\ dec.options = << <<0>>, <<1>>, <<2>>, <<3>> >>

\* C3, as claimed: "p:a,b " decodes to exactly {[p,a], [p,b]}.
C3_CommaReusesPrefix ==
    pc = "done" =>
        \A p, a, b \in Numbers :
            Decoded(<<Numeral(p), ":", Numeral(a), ",", Numeral(b), " ">>)
            => {dec.options[i] : i \in 1..Len(dec.options)} = {<<p, a>>, <<p, b>>}

\* C3, amended: the comma emits the cursor, drops its innermost entry and
\* steps depth back, so the number after it replaces the parent dimension:
\* "p:a,b " decodes to [p,a], [b]; it is the space that re-uses the prefix:
\* "p:a b " decodes to [p,a], [p,b].
C3_CommaStepsBack ==
    pc = "done" =>
        \A p, a, b \in Numbers :
            /\ Decoded(<<Numeral(p), ":", Numeral(a), ",", Numeral(b), " ">>)
                 => dec.options = << <<p, a>>, <<b>> >>
            /\ Decoded(<<Numeral(p), ":", Numeral(a), " ", Numeral(b), " ">>)
                 => dec.options = << <<p, a>>, <<p, b>> >>

\* C3: "0:0,1 " decodes to [0,0], [1].
C3_Witness ==
    /\ Decoded(<<"0", ":", "0", ",", "1", " ">>)
    /\ dec.options = << <<0, 0>>, <<1>> >>

\* C4: decoding "a:b ", the colon writes a at depth 0, moves depth to 1 and
\* emits nothing; the decode yields exactly the one vector [a,b].
C4_ColonAdvances ==
    dec.index >= 2 =>
        \A a, b \in Numbers :
            input = <<Numeral(a), ":", Numeral(b), " ">>
            => /\ dec.index = 2 =>
                    (dec.cur = <<a>> /\ dec.depth = 1 /\ dec.options = <<>>)
               /\ pc = "done" => dec.options = << <<a, b>> >>

\* C4: "1:2 " decodes to [1,2].
C4_Witness ==
    /\ Decoded(<<"1", ":", "2", " ">>)
    /\ dec.options = << <<1, 2>> >>

\* C10, as claimed: all vectors emitted by one decodeOptionValues call have
\* the same length.
C10_SameLength ==
    pc = "done" =>
        \A i, j \in 1..Len(dec.options) : Len(dec.options[i]) = Len(dec.options[j])

\* the number of colons among the first n characters of s
Colons(s, n) == Cardinality({i \in 1..n : s[i] = ":"})

\* C10, amended: the vectors of one call may differ in length; each emitted
\* vector has at most one entry more than there are colons in the part of
\* the string read so far.
C10_LengthBoundedByColons ==
    \A i \in 1..Len(dec.options) :
        Len(dec.options[i]) <= Colons(input, dec.index) + 1

\* C10: "0:0,1 " emits a vector of two entries and one of one entry.
C10_Witness ==
    /\ Decoded(<<"0", ":", "0", ",", "1", " ">>)
    /\ Len(dec.options[1]) = 2
    /\ Len(dec.options[2]) = 1

\* the ASCII digits, and whether a span is written with nothing else
AsciiDigits == <<"0", "1", "2", "3", "4", "5", "6", "7", "8", "9">>
IsAsciiDigit(c) == \E i \in 1..Len(AsciiDigits) : AsciiDigits[i] = c
AllAsciiDigits(span) == \A i \in 1..Len(span) : IsAsciiDigit(span[i])

\* the decimal value of a non-empty span of ASCII digits
RECURSIVE Decimal(_)
Decimal(span) ==
    IF span = <<>> THEN 0
    ELSE 10 * Decimal(SubSeq(span, 1, Len(span) - 1))
           + (CHOOSE i \in 1..Len(AsciiDigits) : AsciiDigits[i] = span[Len(span)]) - 1

\* the value the specification gives a span: 0 for an empty span and for a
\* span that holds any character other than an ASCII digit
LenientValue(span) ==
    IF span = <<>> \/ ~AllAsciiDigits(span) THEN 0 ELSE Decimal(span)

\* C11: the decoder uses 0 for a span that is empty or holds any character
\* other than an ASCII digit, and the span's decimal value otherwise: the
\* string made of one span and a space decodes to the one vector holding
\* that value.
C11_LenientParse ==
    pc = "done" =>
        \A span \in Spans :
            Decoded(span \o <<" ">>) => dec.options = << <<LenientValue(span)>> >>

\* a list of vectors of natural numbers
IsListOfVectors(options) ==
    \A i \in 1..Len(options) : \A k \in 1..Len(options[i]) : options[i][k] \in Nat

\* C12: decodeOptionValues is total.  Every pass of the loop consumes the
\* characters up to and including the next control character, so each
\* control character is processed once and the passes are bounded by the
\* length of the string; when no control character is left the function
\* returns its list of vectors of numbers, whatever the string holds (leading
\* or repeated control characters, unbalanced commas, a range whose upper
\* bound is below its lower bound).
C12_Total ==
    [][pc = "loop" =>
         /\ input' = input
         /\ dec.index \in 0..Len(input)
         /\ IF pc' = "done"
              THEN /\ \A j \in (dec.index + 1)..Len(input) : input[j] \notin Control
                   /\ dec' = dec
                   /\ IsListOfVectors(dec.options)
              ELSE /\ pc' = "loop"
                   /\ dec'.index \in (dec.index + 1)..Len(input)
                   /\ input[dec'.index] \in Control
                   /\ \A j \in (dec.index + 1)..(dec'.index - 1) : input[j] \notin Control
                   /\ IsListOfVectors(dec'.options)]_vars

\* C12: "3-1," (a range whose upper bound is below its lower bound, closed
\* by a comma no colon opened) returns [1] after its two control characters.
C12_Witness ==
    /\ Decoded(<<"3", "-", "1", ",">>)
    /\ dec.index = 4
    /\ dec.depth = -1
    /\ dec.options = << <<1>> >>

(***************************************************************************)
(* Further properties of isOptionValuePresent (Spec).                      *)
(***************************************************************************)
\* C13: whenever getOptionValueIndices raises for the target values and the
\* catalog of an isOptionValuePresent call, the call raises that same error
\* and returns no boolean, whether or not the encoded string was memoized
\* before the call.
C13_ErrorPropagates ==
    Called("isOptionValuePresent") =>
        LET resolved == getOptionValueIndices(lastCall.targetOptionValues,
                                              lastCall.productOptions)
        IN  resolved.threw =>
                /\ lastCall.threw
                /\ lastCall.error = resolved.error
                /\ ~lastCall.present

\* C13: a call with an already memoized string and the unknown value
\* "Purple" raises the error that names "Purple".
C13_Witness ==
    /\ Called("isOptionValuePresent")
    /\ lastCall.repeated
    /\ lastCall.encodedOptionValues \in DOMAIN decodedOptionValues
    /\ lastCall.invocations = <<>>
    /\ lastCall.targetOptionValues = <<"Red", "Purple">>
    /\ lastCall.productOptions = <<Color, Finish>>
    /\ lastCall.threw
    /\ lastCall.error = <<"Option value \"", "Purple", "\" not found in product options">>

\* C14: no eviction.  A step never removes a key of the memo and never
\* changes the set stored under a key; the only key a step may add is the
\* encoded string of the isOptionValuePresent call it makes, mapped to the
\* canonicalized decode of that string.
C14_NoEviction ==
    [][/\ \A k \in DOMAIN decodedOptionValues :
            /\ k \in DOMAIN decodedOptionValues'
            /\ decodedOptionValues'[k] = decodedOptionValues[k]
       /\ \A k \in DOMAIN decodedOptionValues' \ DOMAIN decodedOptionValues :
            /\ lastCall'.fn = "isOptionValuePresent"
            /\ k = lastCall'.encodedOptionValues
            /\ decodedOptionValues'[k] = Canonical(k)]_vars

\* C14: after calls with "0:0 " and with "0-1 " the memo holds both entries.
C14_Witness ==
    /\ calls = MaxCalls
    /\ DOMAIN decodedOptionValues
          = {<<"0", ":", "0", " ">>, <<"0", "-", "1", " ">>}
    /\ decodedOptionValues[<<"0", ":", "0", " ">>] = {<<"0", ",", "0">>}
    /\ decodedOptionValues[<<"0", "-", "1", " ">>] = {<<"0">>, <<"1">>}
    /\ lastCall.encodedOptionValues = <<"0", "-", "1", " ">>

(***************************************************************************)
(* Properties of two interleaved isOptionValuePresent calls                *)
(* (SpecConcurrent).                                                       *)
(***************************************************************************)
\* the caller's call is over: it returned a boolean or raised
Finished(i) == callers[i].pc \in {"returned", "threw"}

\* C15: when two callers have run isOptionValuePresent on the same not yet
\* memoized string, in whatever order their statements were interleaved,
\* the memo holds exactly one entry, for that string, equal to the
\* canonicalized decode of the string, and each caller has the outcome
\* (boolean or error) the call gives when run alone on an empty memo.
C15_ConcurrentFirstAccess ==
    (\A i \in Callers : Finished(i)) =>
        /\ \A i \in Callers :
             /\ DOMAIN decodedOptionValues = {callers[i].encodedOptionValues}
             /\ decodedOptionValues[callers[i].encodedOptionValues]
                   = Canonical(callers[i].encodedOptionValues)
        /\ \A i \in Callers :
             LET alone == isOptionValuePresent(<<>>, callers[i].targetOptionValues,
                                               callers[i].encodedOptionValues,
                                               callers[i].productOptions)
             IN  /\ callers[i].threw = alone.threw
                 /\ callers[i].error = alone.error
                 /\ callers[i].present = alone.present

\* C15: both callers found "0:0 " absent from the memo, both decoded and
\* stored it; the first is told [0,0] is available, the second that [1,1]
\* is not.
C15_Witness ==
    /\ \A i \in Callers : callers[i].pc = "returned" /\ callers[i].miss
    /\ decodeInvocations[<<"0", ":", "0", " ">>] = 4
    /\ callers["first"].encodedOptionValues = <<"0", ":", "0", " ">>
    /\ callers["first"].productOptions = <<Color, Finish>>
    /\ callers["first"].targetOptionValues = <<"Red", "Blue">>
    /\ callers["second"].targetOptionValues = <<"Blue", "Red">>
    /\ callers["first"].present
    /\ ~callers["second"].present

(***************************************************************************)
(* Properties of the variants-based VariantSelector (SpecSelector).        *)
(***************************************************************************)
\* the combination a rendered option value stands for: the selected value
\* of every option, with the rendered option's value replaced
Combination(props, optionName, optionValue) ==
    [name \in {props.selectedOptions[i].name : i \in 1..Len(props.selectedOptions)} |->
        IF name = optionName THEN optionValue
        ELSE props.selectedOptions[CHOOSE i \in 1..Len(props.selectedOptions) :
                                      props.selectedOptions[i].name = name].value]

\* the entries of `variants` whose selected options all agree with the
\* combination
MatchingVariants(props, combination) ==
    IF "variants" \notin DOMAIN props THEN {}
    ELSE {k \in 1..Len(props.variants) :
            \A j \in 1..Len(props.variants[k].selectedOptions) :
                LET selectedOption == props.variants[k].selectedOptions[j]
                IN  /\ selectedOption.name \in DOMAIN combination
                    /\ combination[selectedOption.name] = selectedOption.value}

\* C16: every option value the variants-based VariantSelector renders has
\* isAvailable = true when no entry of `variants` matches its combination,
\* and the first matching entry's availableForSale otherwise.
C16_DefaultAvailable ==
    selector.file # "none" =>
        \A o \in 1..Len(selector.children) :
            \A v \in 1..Len(selector.children[o].values) :
                LET row == selector.children[o].values[v]
                    matching == MatchingVariants(selector.props,
                                    Combination(selector.props, selector.children[o].name,
                                                row.value))
                IN  IF matching = {}
                      THEN row.isAvailable = TRUE
                      ELSE row.isAvailable =
                             selector.props.variants[
                                 CHOOSE k \in matching : \A j \in matching : k <= j
                             ].availableForSale

(***************************************************************************)
(* Further properties of decodeOptionValues (SpecDecode).                  *)
(***************************************************************************)
\* the number a pass of the loop parsed, the control character it handled
\* and the vectors it emitted, read off the state before and after the pass
ParsedNumber == OrZero(parseInt(SubSeq(input, dec.index + 1, dec'.index - 1)))
HandledOperation == input[dec'.index]
EmittedByPass == SubSeq(dec'.options, Len(dec.options) + 1, Len(dec'.options))

\* vector is cursor with value in the slot of the 0-based depth
IsCursorWith(vector, cursor, depth, value) ==
    /\ depth + 1 \in 1..Len(vector)
    /\ vector[depth + 1] = value
    /\ Len(vector) = (IF Len(cursor) > depth + 1 THEN Len(cursor) ELSE depth + 1)
    /\ \A j \in 1..Len(cursor) : j # depth + 1 => vector[j] = cursor[j]

\* C17: a pass that parses the number n while a range with lower bound l is
\* pending first emits, in increasing order, one vector per v in l..n-1
\* (none when n <= l), each the cursor with v in the slot of the current
\* depth, so none of them holds n there; the range is cleared (the dash of
\* the same token may open a new one at n), the slot of the current depth
\* holds n afterwards with the other slots as they were, and depth changes
\* only by what the token's own control character does.
C17_RangeExpansion ==
    [][(pc = "loop" /\ pc' = "loop" /\ dec.range # null) =>
         LET n == ParsedNumber
             l == dec.range
             count == IF n > l THEN n - l ELSE 0
         IN  /\ Len(EmittedByPass) \in {count, count + 1}
             /\ \A k \in 1..count :
                    IsCursorWith(EmittedByPass[k], dec.cur, dec.depth, l + k - 1)
             /\ dec'.range = (IF HandledOperation = "-" THEN n ELSE null)
             /\ dec'.depth = dec.depth + (IF HandledOperation = ":" THEN 1
                                          ELSE IF HandledOperation = "," THEN 0 - 1
                                          ELSE 0)
             /\ HandledOperation # "," =>
                    IsCursorWith(dec'.cur, dec.cur, dec.depth, n)
             /\ HandledOperation = "," =>
                    IsCursorWith(dec'.cur \o <<n>>, dec.cur, dec.depth, n)]_vars

\* v without its last entry (v itself when it is empty)
WithoutLast(v) == SubSeq(v, 1, Len(v) - 1)

\* cursor is the cursor of the pass once the parsed number is written: the
\* old cursor with the number in the slot of the current depth; a negative
\* depth names no slot and the cursor stays as it was
IsCursorOfPass(cursor) ==
    IF dec.depth >= 0
      THEN IsCursorWith(cursor, dec.cur, dec.depth, ParsedNumber)
      ELSE cursor = dec.cur

\* C18: a pass that handles a comma emits the cursor if and only if the
\* character just before the comma in the string is not a comma (the
\* vectors of a pending range come before it); emitted or not, the cursor
\* then loses its last entry and depth goes down by one.
C18_CommaStep ==
    [][(pc = "loop" /\ pc' = "loop" /\ HandledOperation = ",") =>
         LET afterComma == dec'.index >= 2 /\ input[dec'.index - 1] = ","
             expanded == IF dec.range # null /\ ParsedNumber > dec.range
                           THEN ParsedNumber - dec.range ELSE 0
         IN  /\ dec'.depth = dec.depth - 1
             /\ IF afterComma
                  THEN /\ EmittedByPass = <<>>
                       /\ \E cursor \in {dec'.cur, dec'.cur \o <<ParsedNumber>>} :
                            IsCursorOfPass(cursor) /\ dec'.cur = WithoutLast(cursor)
                  ELSE /\ Len(EmittedByPass) = expanded + 1
                       /\ IsCursorOfPass(EmittedByPass[expanded + 1])
                       /\ dec'.cur = WithoutLast(EmittedByPass[expanded + 1])]_vars

\* C18: in "0:1,," the first comma emits [0,1] and steps back to depth 0;
\* the second comma, which follows a comma, emits nothing and steps back
\* again, leaving an empty cursor.
C18_Witness ==
    /\ Decoded(<<"0", ":", "1", ",", ",">>)
    /\ dec.options = << <<0, 1>> >>
    /\ dec.cur = <<>>
    /\ dec.depth = -1

\* the number of characters after the last control character of s
RECURSIVE TrailingLength(_)
TrailingLength(s) ==
    IF s = <<>> \/ s[Len(s)] \in Control THEN 0
    ELSE 1 + TrailingLength(SubSeq(s, 1, Len(s) - 1))

\* C19: the decode of s + t, for a non-empty t with no control character,
\* is the decode of s: whatever part of the fragment after the last control
\* character is cut off the decoded string, the decode of the rest is the
\* same list; a string with no control character decodes to the empty list.
C19_TrailingFragmentDropped ==
    pc = "done" =>
        /\ \A k \in 1..TrailingLength(input) :
              dec.options = decodeOptionValues(SubSeq(input, 1, Len(input) - k))
        /\ (\A i \in 1..Len(input) : input[i] \notin Control) => dec.options = <<>>

\* C19: "0:1 23" decodes to [0,1] alone, as "0:1 " and "0:1 2" do.
C19_Witness ==
    /\ Decoded(<<"0", ":", "1", " ", "2", "3">>)
    /\ dec.options = << <<0, 1>> >>
    /\ decodeOptionValues(<<"0", ":", "1", " ">>) = << <<0, 1>> >>
    /\ decodeOptionValues(<<"0", ":", "1", " ", "2">>) = << <<0, 1>> >>

(***************************************************************************)
(* The memo against a stateless reference (Spec).                          *)
(***************************************************************************)
\* the outcome of a reference without memo: resolve the targets, decode the
\* string afresh, canonicalize it and test membership
Reference(targets, encoded, catalog) ==
    LET resolved == getOptionValueIndices(targets, catalog)
    IN  IF resolved.threw
          THEN [threw |-> TRUE, error |-> resolved.error, present |-> FALSE]
          ELSE [threw |-> FALSE, error |-> <<>>,
                present |-> Join(resolved.indices) \in Canonical(encoded)]

\* C20: whatever calls came before, the outcome of an isOptionValuePresent
\* call (its boolean, or the error it raises) is the outcome of the
\* stateless reference on the same arguments.
C20_CacheTransparent ==
    Called("isOptionValuePresent") =>
        LET reference == Reference(lastCall.targetOptionValues,
                                   lastCall.encodedOptionValues,
                                   lastCall.productOptions)
        IN  /\ lastCall.threw = reference.threw
            /\ lastCall.error = reference.error
            /\ lastCall.present = reference.present

\* C20: with "0-1 " memoized by an earlier call, a first call with "0:0 "
\* reports the combination at [1] unavailable, although the set memoized
\* for the other string holds "1".
C20_Witness ==
    /\ Called("isOptionValuePresent")
    /\ calls = MaxCalls
    /\ ~lastCall.repeated
    /\ <<"0", "-", "1", " ">> \in DOMAIN decodedOptionValues
    /\ lastCall.encodedOptionValues = <<"0", ":", "0", " ">>
    /\ lastCall.productOptions = <<Color>>
    /\ lastCall.targetOptionValues = <<"Blue">>
    /\ ~lastCall.threw
    /\ ~lastCall.present

(***************************************************************************)
(* The order of decode and resolution (Spec).                              *)
(***************************************************************************)
\* C21: an isOptionValuePresent call on a string the memo does not hold
\* that raises the value-not-found error has decoded the string and leaves
\* the memo holding its entry; and a call that follows a raising call with
\* the same string and returns a boolean decodes nothing.
C21_DecodePrecedesResolution ==
    [][(lastCall'.fn = "isOptionValuePresent" /\ calls' = calls + 1) =>
         /\ (lastCall'.threw
               /\ lastCall'.encodedOptionValues \notin DOMAIN decodedOptionValues)
            => /\ lastCall'.invocations # <<>>
               /\ decodedOptionValues' # decodedOptionValues
               /\ lastCall'.encodedOptionValues \in DOMAIN decodedOptionValues'
               /\ decodedOptionValues'[lastCall'.encodedOptionValues]
                     = Canonical(lastCall'.encodedOptionValues)
         /\ (lastCall.fn = "isOptionValuePresent"
               /\ lastCall.threw
               /\ lastCall'.encodedOptionValues = lastCall.encodedOptionValues
               /\ ~lastCall'.threw)
            => /\ lastCall'.invocations = <<>>
               /\ decodeInvocations' = decodeInvocations
               /\ decodedOptionValues' = decodedOptionValues]_vars

\* C21: the first call, with "0:0 " and the unknown value "Purple", raised
\* and the memo holds the entry of "0:0 ".
C21_Witness ==
    /\ calls = 1
    /\ Called("isOptionValuePresent")
    /\ lastCall.threw
    /\ lastCall.targetOptionValues = <<"Purple">>
    /\ lastCall.productOptions = <<Color>>
    /\ lastCall.encodedOptionValues = <<"0", ":", "0", " ">>
    /\ DOMAIN decodedOptionValues = {<<"0", ":", "0", " ">>}
    /\ decodedOptionValues[<<"0", ":", "0", " ">>] = {<<"0", ",", "0">>}

(***************************************************************************)
(* Depth at emission (SpecDecode).                                         *)
(***************************************************************************)
\* C22: in every pass of the loop that emits, depth is non-negative when
\* the vectors are pushed and each emitted vector has exactly depth + 1
\* entries, all of them natural numbers; so no empty vector and no vector
\* with a missing entry is emitted, whatever the string.
C22_DepthAtEmission ==
    [][(pc = "loop" /\ pc' = "loop" /\ EmittedByPass # <<>>) =>
         /\ dec.depth >= 0
         /\ \A k \in 1..Len(EmittedByPass) :
               /\ Len(EmittedByPass[k]) = dec.depth + 1
               /\ \A j \in 1..Len(EmittedByPass[k]) : EmittedByPass[k][j] \in Nat]_vars

(***************************************************************************)
(* The entries getOptionValueIndices returns (Spec).                       *)
(***************************************************************************)
\* C23: a getOptionValueIndices call either raises the value-not-found
\* error or returns a vector whose every entry i is an integer with
\* 0 <= entry < length(catalog[i].values), also when the targets are more
\* than the catalog's options or an option has no values list: no undefined
\* entry is returned.
C23_EntriesInRange ==
    Called("getOptionValueIndices") =>
        \/ /\ lastCall.threw
           /\ \E i \in 1..Len(lastCall.targetOptionValues) :
                lastCall.error = <<"Option value \"", lastCall.targetOptionValues[i],
                                   "\" not found in product options">>
        \/ /\ ~lastCall.threw
           /\ Len(lastCall.indices) = Len(lastCall.targetOptionValues)
           /\ \A i \in 1..Len(lastCall.indices) :
                /\ i <= Len(lastCall.productOptions)
                /\ "values" \in DOMAIN lastCall.productOptions[i]
                /\ lastCall.indices[i] \in
                      0..(Len(lastCall.productOptions[i].values) - 1)
=============================================================================
